---- MODULE Spec2Model ----
(***************************************************************************)
(* A model of lcapy/schematic.py: the Schematic object (element table,     *)
(* node table, net grouping), the add operation, and the layout pass       *)
(* (_make_graphs for both axes, longest_path, _positions_calculate)        *)
(* as run by schemdraw_draw, and by tikz_draw followed by wire inference   *)
(* (_make_wires).                                                          *)
(*                                                                         *)
(* Strings are sequences of one-character strings, so that the splitting   *)
(* and matching the code does on them is computed, not assumed.            *)
(* Coordinates are kept doubled (the code multiplies by 0.5 and works in   *)
(* floats; with integer sizes every doubled value is an integer).          *)
(* The source is Python 2: a dict iterates in hash-slot order, which is    *)
(* unrelated to insertion order.  A dict whose iteration order the code    *)
(* depends on is a sequence in insertion order, and every keys()/values()  *)
(* of it is some permutation of that sequence.                             *)
(***************************************************************************)
EXTENDS Integers, Sequences, FiniteSets, TLC

\* ------------------------------------------------------------- bounds
\* Netlist lines added, and drawings made, per behaviour.
MaxElts == 3
MaxDraws == 2
\* Largest size option of the netlist lines.
MaxSize == 2
\* The interpreter's recursion limit (1000 in CPython), scaled to the model.
RecursionLimit == 10

\* ------------------------------------------------------------ strings
Digits == <<"0", "1", "2", "3", "4", "5", "6", "7", "8", "9">>

\* '%d' % n, for the n the model reaches.
DecStr(n) == IF n < 10 THEN <<Digits[n + 1]>>
             ELSE <<Digits[(n \div 10) + 1], Digits[(n % 10) + 1]>>

\* float(s) of a one-digit size string.
Float(s) == CHOOSE n \in 0..9 : <<Digits[n + 1]>> = s

\* Characters \w matches, among those the model's names are written in.
WordChars == {"0", "1", "2", "3", "4", "5", "6", "7", "8", "9", "_",
              "R", "C", "L", "V", "I", "P", "W", "T", "F",
              "a", "c", "d", "v", "i", "p", "o", "r", "t", "w", "e"}

IsPrefix(p, s) == Len(p) <= Len(s) /\ SubSeq(s, 1, Len(p)) = p

\* s.replace('.', '_')
Replace(s) == [i \in 1..Len(s) |-> IF s[i] = "." THEN "_" ELSE s[i]]

\* s.split('_')
RECURSIVE Split(_)
Split(s) ==
    IF \A i \in 1..Len(s) : s[i] # "_" THEN <<s>>
    ELSE LET k == CHOOSE i \in 1..Len(s) :
                      s[i] = "_" /\ \A j \in 1..(i - 1) : s[j] # "_"
         IN <<SubSeq(s, 1, k - 1)>> \o Split(SubSeq(s, k + 1, Len(s)))

\* The keys of cpt_type_map.
cpt_types == { <<"R">>, <<"C">>, <<"L">>, <<"V", "a", "c">>, <<"V", "d", "c">>,
               <<"I", "a", "c">>, <<"I", "d", "c">>, <<"V">>, <<"I">>,
               <<"v">>, <<"i">>, <<"T", "F">>, <<"P">>, <<"p", "o", "r", "t">>,
               <<"W">>, <<"w", "i", "r", "e">> }

NoMatch == [matched |-> FALSE, cpt_type |-> <<>>, id |-> <<>>]

\* cpt_type_pattern.match(name): the alternatives are tried longest first, then
\* one optional word character.  id = <<>> stands for the group being None.
cpt_type_pattern_match(name) ==
    LET cands == {t \in cpt_types : IsPrefix(t, name)}
    IN IF cands = {} THEN NoMatch
       ELSE LET t == CHOOSE c \in cands : \A d \in cands : Len(d) <= Len(c)
                k == Len(t) + 1
            IN [matched |-> TRUE, cpt_type |-> t,
                id |-> IF k <= Len(name) /\ name[k] \in WordChars
                       THEN <<name[k]>> ELSE <<>>]

\* ------------------------------------------------------------ objects
None == "None"
NoPos == <<>>
NoErr == [type |-> "none", what |-> <<>>]

\* Schematic._opts_parse on the parts of an option string already split at
\* ','; a part is [key, arg], a direction word having arg "".
RECURSIVE opts_parse(_, _)
opts_parse(parts, opts) ==
    IF parts = <<>> THEN opts
    ELSE LET part == Head(parts)
         IN opts_parse(Tail(parts),
              IF part.key \in {"up", "down", "left", "right"} /\ part.arg = <<>>
              THEN [opts EXCEPT !.dir = part.key]
              ELSE IF part.key = "size" THEN [opts EXCEPT !.size = part.arg]
              ELSE opts)

DefaultOpts == [dir |-> None, size |-> <<"1">>]

\* NetElement.__init__ without extra args: the element built and the new
\* value of the class counter, or ok = FALSE for the ValueError.
NetElement(name, node1, node2, opts, counter) ==
    LET m == cpt_type_pattern_match(name)
        anon == m.id = <<>>
        cnt == IF anon THEN counter + 1 ELSE counter
        nm == IF anon THEN m.cpt_type \o <<"#">> \o DecStr(cnt) ELSE name
        dir == IF opts.dir = None
               THEN (IF m.cpt_type \in {<<"p", "o", "r", "t">>, <<"P">>}
                     THEN "down" ELSE "right")
               ELSE opts.dir
    IN IF ~m.matched
       THEN [ok |-> FALSE, counter |-> counter, elt |-> <<>>]
       ELSE [ok |-> TRUE, counter |-> cnt,
             elt |-> [name |-> nm, cpt_type |-> m.cpt_type,
                      nodes |-> <<Replace(node1), Replace(node2)>>,
                      opts |-> [dir |-> dir, size |-> opts.size],
                      pos1 |-> NoPos, pos2 |-> NoPos]]

\* Node.__init__
Node(name) ==
    LET parts == Split(name)
    IN [name |-> name, port |-> FALSE, rootname |-> parts[1],
        primary |-> Len(parts) = 1, list |-> <<>>]

\* Node.append; elements are held by reference (their index in the heap).
NodeAppend(node, ref, elt) ==
    [node EXCEPT !.port = @ \/ elt.cpt_type \in {<<"P">>, <<"p", "o", "r", "t">>,
                                               <<"o", "p", "e", "n">>},
                 !.list = Append(@, ref)]

\* ---------------------------------------------------------- schematic
VARIABLES
    heap,              \* the NetElement objects made by add, by reference
    elements,          \* Schematic.elements: references, in insertion order
    nodes,             \* Schematic.nodes: name -> Node
    vnodes,            \* Schematic.vnodes: rootname -> (node -> element), both
                       \* in insertion order
    cpt_type_counter,  \* NetElement.cpt_type_counter
    scale,             \* Schematic.scale
    coords,            \* Schematic.coords, doubled
    wires,             \* the list the last _make_wires returned
    pass,              \* the locals of the last _positions_calculate
    error,             \* the exception the last operation ended in
    last,              \* the last operation: "new", "add", "schemdraw", "tikz"
    ndraws             \* drawings so far

vars == <<heap, elements, nodes, vnodes, cpt_type_counter, scale, coords,
          wires, pass, error, last, ndraws>>

Keys(d) == {d[i].key : i \in 1..Len(d)}
Slot(d, k) == CHOOSE i \in 1..Len(d) : d[i].key = k

\* d[k] = v on an insertion-ordered dict: a key already there keeps its place.
DictSet(d, k, v) ==
    IF k \in Keys(d) THEN [d EXCEPT ![Slot(d, k)].val = v]
    ELSE Append(d, [key |-> k, val |-> v])

\* Schematic._node_add on the pair [nodes, vnodes].
node_add(tab, node, ref, elt) ==
    LET nodes1 == IF node \in DOMAIN tab.nodes THEN tab.nodes
                  ELSE tab.nodes @@ (node :> Node(node))
        nodes2 == [nodes1 EXCEPT ![node] = NodeAppend(@, ref, elt)]
        vnode == nodes2[node].rootname
        vnodes1 == IF vnode \in Keys(tab.vnodes) THEN tab.vnodes
                   ELSE Append(tab.vnodes, [key |-> vnode, val |-> <<>>])
        s == Slot(vnodes1, vnode)
        vnodes2 == IF node \in Keys(vnodes1[s].val) THEN vnodes1
                   ELSE [vnodes1 EXCEPT ![s].val =
                            Append(@, [key |-> node, val |-> ref])]
    IN [nodes |-> nodes2, vnodes |-> vnodes2]

\* Schematic._elt_add: the element table is overwritten at the element's
\* name, and both of its nodes are registered; nothing else is updated.
elt_add(elts, tab, ref, elt) ==
    LET t1 == node_add(tab, elt.nodes[1], ref, elt)
        t2 == node_add(t1, elt.nodes[2], ref, elt)
    IN [elements |-> DictSet(elts, elt.name, ref),
        nodes |-> t2.nodes, vnodes |-> t2.vnodes]

\* ------------------------------------------------------- longest path
\* get_longest(to_node) with the memo threaded through: st is
\* [memo, overflow, reentries, ret]; stack holds the vertices whose evaluation
\* is in progress.  overflow is the interpreter giving up at its recursion
\* limit; reentries counts the calls made for a vertex still in progress.
RECURSIVE get_longest(_, _, _, _)
RECURSIVE get_longest_loop(_, _, _, _, _, _)
get_longest(from_nodes, st, to_node, stack) ==
    IF st.overflow THEN st
    ELSE IF to_node \in DOMAIN st.memo
    THEN [st EXCEPT !.ret = st.memo[to_node]]
    ELSE IF Len(stack) >= RecursionLimit
    THEN [st EXCEPT !.overflow = TRUE]
    ELSE LET inprogress == \E i \in 1..Len(stack) : stack[i] = to_node
             st1 == [st EXCEPT !.reentries = @ + (IF inprogress THEN 1 ELSE 0)]
             r == get_longest_loop(from_nodes, st1, to_node, 1, 0,
                                   Append(stack, to_node))
         IN IF r.overflow THEN r
            ELSE [r EXCEPT !.memo = (to_node :> r.ret) @@ r.memo]

\* The for loop of get_longest from its i-th parent on; ret ends as best.
get_longest_loop(from_nodes, st, to_node, i, best, stack) ==
    IF st.overflow THEN st
    ELSE IF i > Len(from_nodes[to_node]) THEN [st EXCEPT !.ret = best]
    ELSE LET edge == from_nodes[to_node][i]
             r == get_longest(from_nodes, st, edge[1], stack)
             cand == r.ret + edge[2]
         IN get_longest_loop(from_nodes, r, to_node, i + 1,
                             IF cand > best THEN cand ELSE best, stack)

RECURSIVE longest_path_loop(_, _, _, _)
longest_path_loop(all_nodes, from_nodes, st, length) ==
    IF all_nodes = <<>> \/ st.overflow THEN [st EXCEPT !.ret = length]
    ELSE LET r == get_longest(from_nodes, st, Head(all_nodes), <<>>)
         IN longest_path_loop(Tail(all_nodes), from_nodes, r,
                              IF r.ret > length THEN r.ret ELSE length)

\* longest_path: [length, memo], with overflow and reentries as above.
longest_path(all_nodes, from_nodes) ==
    LET r == longest_path_loop(all_nodes, from_nodes,
                 [memo |-> <<>>, overflow |-> FALSE, reentries |-> 0, ret |-> 0],
                 0)
    IN [length |-> r.ret, memo |-> r.memo, overflow |-> r.overflow,
        reentries |-> r.reentries]

\* -------------------------------------------------------- _make_graphs
Has(f, k) == k \in DOMAIN f

\* unify_step with a fault: a first terminal met after the second is given a
\* collective node of its own instead of the second's.
unify_step_nojoin(u, elt, dirs) ==
    LET n1 == elt.nodes[1]
        n2 == elt.nodes[2]
        map == u.cnode_map
    IN IF u.err # NoErr \/ elt.opts.dir \in {dirs[1], dirs[2]} THEN u
       ELSE IF Has(map, n1) /\ Has(map, n2) /\ map[n1] # map[n2]
       THEN [u EXCEPT !.err = [type |-> "ValueError", what |-> elt.name]]
       ELSE IF ~Has(map, n1) /\ ~Has(map, n2)
       THEN [u EXCEPT !.cnode = u.cnode + 1,
                      !.cnode_map = (n1 :> u.cnode + 1) @@ (n2 :> u.cnode + 1) @@ map,
                      !.cnodes = (u.cnode + 1 :> <<n1, n2>>) @@ u.cnodes]
       ELSE IF ~Has(map, n1)
       THEN [u EXCEPT !.cnode = u.cnode + 1,
                      !.cnode_map = (n1 :> u.cnode + 1) @@ map,
                      !.cnodes = (u.cnode + 1 :> <<n1>>) @@ u.cnodes]
       ELSE [u EXCEPT !.cnode_map = (n2 :> map[n1]) @@ map,
                      !.cnodes = [u.cnodes EXCEPT ![map[n1]] = Append(@, n2)]]

\* One turn of the first loop of _make_graphs (the orthogonal elements) on
\* u = [cnode, cnode_map, cnodes, err].
unify_step(u, elt, dirs) ==
    LET n1 == elt.nodes[1]
        n2 == elt.nodes[2]
        map == u.cnode_map
    IN IF u.err # NoErr \/ elt.opts.dir \in {dirs[1], dirs[2]} THEN u
       ELSE IF Has(map, n1) /\ Has(map, n2) /\ map[n1] # map[n2]
       THEN [u EXCEPT !.err = [type |-> "ValueError", what |-> elt.name]]
       ELSE IF ~Has(map, n1) /\ ~Has(map, n2)
       THEN [u EXCEPT !.cnode = u.cnode + 1,
                      !.cnode_map = (n1 :> u.cnode + 1) @@ (n2 :> u.cnode + 1) @@ map,
                      !.cnodes = (u.cnode + 1 :> <<n1, n2>>) @@ u.cnodes]
       ELSE IF ~Has(map, n1)
       THEN [u EXCEPT !.cnode_map = (n1 :> map[n2]) @@ map,
                      !.cnodes = [u.cnodes EXCEPT ![map[n2]] = Append(@, n1)]]
       ELSE [u EXCEPT !.cnode_map = (n2 :> map[n1]) @@ map,
                      !.cnodes = [u.cnodes EXCEPT ![map[n1]] = Append(@, n2)]]

\* A node of an element in the desired directions gets a collective node of
\* its own unless it has one.
augment_node(u, n) ==
    IF Has(u.cnode_map, n) THEN u
    ELSE [u EXCEPT !.cnode = u.cnode + 1,
                   !.cnode_map = (n :> u.cnode + 1) @@ u.cnode_map,
                   !.cnodes = (u.cnode + 1 :> <<n>>) @@ u.cnodes]

\* One turn of the second loop of _make_graphs.
augment_step(u, elt, dirs) ==
    IF elt.opts.dir \notin {dirs[1], dirs[2]} THEN u
    ELSE augment_node(augment_node(u, elt.nodes[1]), elt.nodes[2])

RECURSIVE unify(_, _, _)
unify(u, elts, dirs) ==
    IF elts = <<>> THEN u
    ELSE unify(unify_step(u, Head(elts), dirs), Tail(elts), dirs)

RECURSIVE augment(_, _, _)
augment(u, elts, dirs) ==
    IF elts = <<>> THEN u
    ELSE augment(augment_step(u, Head(elts), dirs), Tail(elts), dirs)

\* The collective nodes of an axis: both loops, over the elements in the
\* order the element table iterates.
collective_nodes(elts, dirs) ==
    LET u == unify([cnode |-> 0, cnode_map |-> <<>>, cnodes |-> <<>>,
                    err |-> NoErr], elts, dirs)
    IN IF u.err # NoErr THEN u ELSE augment(u, elts, dirs)

\* edge_step with a fault: the second direction is entered like the first.
edge_step_noflip(g, elt, dirs, cnode_map) ==
    LET m1 == cnode_map[elt.nodes[1]]
        m2 == cnode_map[elt.nodes[2]]
        size == Float(elt.opts.size)
    IN IF elt.opts.dir \notin {dirs[1], dirs[2]} THEN g
       ELSE [graph |-> [g.graph EXCEPT ![m1] = Append(@, <<m2, size>>)],
             rgraph |-> [g.rgraph EXCEPT ![m2] = Append(@, <<m1, size>>)]]

\* edge_step with a fault: the reverse graph's edges are entered with size 1.
edge_step_unit(g, elt, dirs, cnode_map) ==
    LET m1 == cnode_map[elt.nodes[1]]
        m2 == cnode_map[elt.nodes[2]]
        size == Float(elt.opts.size)
    IN IF elt.opts.dir \notin {dirs[1], dirs[2]} THEN g
       ELSE IF elt.opts.dir = dirs[1]
       THEN [graph |-> [g.graph EXCEPT ![m1] = Append(@, <<m2, size>>)],
             rgraph |-> [g.rgraph EXCEPT ![m2] = Append(@, <<m1, 1>>)]]
       ELSE [graph |-> [g.graph EXCEPT ![m2] = Append(@, <<m1, size>>)],
             rgraph |-> [g.rgraph EXCEPT ![m1] = Append(@, <<m2, 1>>)]]

\* One turn of the third loop: the element's edge in graph and in rgraph.
edge_step(g, elt, dirs, cnode_map) ==
    LET m1 == cnode_map[elt.nodes[1]]
        m2 == cnode_map[elt.nodes[2]]
        size == Float(elt.opts.size)
    IN IF elt.opts.dir \notin {dirs[1], dirs[2]} THEN g
       ELSE IF elt.opts.dir = dirs[1]
       THEN [graph |-> [g.graph EXCEPT ![m1] = Append(@, <<m2, size>>)],
             rgraph |-> [g.rgraph EXCEPT ![m2] = Append(@, <<m1, size>>)]]
       ELSE [graph |-> [g.graph EXCEPT ![m2] = Append(@, <<m1, size>>)],
             rgraph |-> [g.rgraph EXCEPT ![m1] = Append(@, <<m2, size>>)]]

RECURSIVE edges(_, _, _, _)
edges(g, elts, dirs, cnode_map) ==
    IF elts = <<>> THEN g
    ELSE edges(edge_step(g, Head(elts), dirs, cnode_map), Tail(elts), dirs, cnode_map)

\* [m for m in range(1, cnode + 1) if g[m] == []], each paired with 0.
RECURSIVE orphans_of(_, _, _)
orphans_of(g, m, cnode) ==
    IF m > cnode THEN <<>>
    ELSE (IF g[m] = <<>> THEN <<(<<m, 0>>)>> ELSE <<>>) \o orphans_of(g, m + 1, cnode)

\* The forward and reverse graphs, start nodes chained to node 0.
graphs(elts, dirs, u) ==
    LET empty == [m \in 0..u.cnode |-> <<>>]
        g == edges([graph |-> empty, rgraph |-> empty], elts, dirs, u.cnode_map)
    IN [graph |-> [g.graph EXCEPT ![0] = orphans_of(g.rgraph, 1, u.cnode)],
        rgraph |-> [g.rgraph EXCEPT ![0] = orphans_of(g.graph, 1, u.cnode)]]

\* The length the positions are measured against: the second call's result
\* is assigned to the same name as the first's.
critical_length(lp, lpr) == lpr.length

\* posa2 with a fault: the forward position alone, not averaged.
posa2_pos(length, f, r) == 2 * (length - f)

\* posa, doubled: pos + posr where the code has 0.5 * (pos + posr).
posa2(length, f, r) == (length - f) + r

NoAxis == [err |-> NoErr, cnode |-> 0, cnode_map |-> <<>>, cnodes |-> <<>>,
           graph |-> <<>>, rgraph |-> <<>>, memo |-> <<>>, memor |-> <<>>,
           length1 |-> 0, length |-> 0, reentries |-> 0, posa |-> <<>>]

\* Schematic._make_graphs(dirs) with the element table iterating as elts: the
\* locals at its end, err telling how it ended.
make_graphs(elts, dirs) ==
    LET u == collective_nodes(elts, dirs)
        g == graphs(elts, dirs, u)
        keys == [i \in 1..(u.cnode + 1) |-> i - 1]
        lp == longest_path(keys, g.graph)
        lpr == longest_path(keys, g.rgraph)
        length == critical_length(lp, lpr)
        base == [NoAxis EXCEPT !.cnode = u.cnode, !.cnode_map = u.cnode_map,
                               !.cnodes = u.cnodes]
    IN IF u.err # NoErr THEN [base EXCEPT !.err = u.err]
       ELSE IF lp.overflow
       THEN [base EXCEPT !.err = [type |-> "RuntimeError", what |-> <<>>],
                         !.graph = g.graph, !.rgraph = g.rgraph,
                         !.reentries = lp.reentries]
       ELSE IF lpr.overflow
       THEN [base EXCEPT !.err = [type |-> "RuntimeError", what |-> <<>>],
                         !.graph = g.graph, !.rgraph = g.rgraph,
                         !.memo = lp.memo, !.length1 = lp.length,
                         !.reentries = lpr.reentries]
       ELSE [base EXCEPT !.graph = g.graph, !.rgraph = g.rgraph,
                         !.memo = lp.memo, !.memor = lpr.memo,
                         !.length1 = lp.length, !.length = length,
                         !.posa = [n \in DOMAIN u.cnode_map |->
                                     posa2(length, lp.memo[u.cnode_map[n]],
                                           lpr.memo[u.cnode_map[n]])]]

\* ------------------------------------------------ _positions_calculate
NoPass == [x |-> NoAxis, y |-> NoAxis, yran |-> FALSE]

\* coords_of with a fault: the two axes the wrong way round.
coords_of_swapped(xpos, ypos, sc) ==
    [n \in DOMAIN xpos |-> <<ypos[n] * sc, xpos[n] * sc>>]

\* coords[node] = (xpos[node] * scale, ypos[node] * scale), doubled.
coords_of(xpos, ypos, sc) ==
    [n \in DOMAIN xpos |-> <<xpos[n] * sc, ypos[n] * sc>>]

\* The two calls of _make_graphs that _positions_calculate starts with, the
\* element table iterating as refs (references into hp).
axes(hp, refs) ==
    LET elts == [i \in 1..Len(refs) |-> hp[refs[i]]]
    IN [x |-> make_graphs(elts, <<"right", "left">>),
        y |-> make_graphs(elts, <<"up", "down">>)]

\* positions_calculate with a fault: the x coordinates are stored before the
\* y axis is solved.
positions_calculate_partial(hp, refs, ax, old, sc) ==
    LET c == coords_of(ax.x.posa, ax.y.posa, sc)
    IN IF ax.x.err # NoErr
       THEN [err |-> ax.x.err, coords |-> old, heap |-> hp,
             pass |-> [x |-> ax.x, y |-> NoAxis, yran |-> FALSE]]
       ELSE IF ax.y.err # NoErr
       THEN [err |-> ax.y.err,
             coords |-> [n \in DOMAIN ax.x.posa |-> <<ax.x.posa[n] * sc, 0>>],
             heap |-> hp,
             pass |-> [x |-> ax.x, y |-> ax.y, yran |-> TRUE]]
       ELSE [err |-> NoErr, coords |-> c,
             heap |-> [r \in DOMAIN hp |->
                         IF \E i \in 1..Len(refs) : refs[i] = r
                         THEN [hp[r] EXCEPT !.pos1 = c[hp[r].nodes[1]],
                                            !.pos2 = c[hp[r].nodes[2]]]
                         ELSE hp[r]],
             pass |-> [x |-> ax.x, y |-> ax.y, yran |-> TRUE]]

\* Schematic._positions_calculate, ax being what its two calls of
\* _make_graphs give: what it leaves in coords and in the elements, and its
\* locals.  An error in the x axis ends it before the y axis is tried.
positions_calculate(hp, refs, ax, old, sc) ==
    LET c == coords_of(ax.x.posa, ax.y.posa, sc)
    IN IF ax.x.err # NoErr
       THEN [err |-> ax.x.err, coords |-> old, heap |-> hp,
             pass |-> [x |-> ax.x, y |-> NoAxis, yran |-> FALSE]]
       ELSE IF ax.y.err # NoErr
       THEN [err |-> ax.y.err, coords |-> old, heap |-> hp,
             pass |-> [x |-> ax.x, y |-> ax.y, yran |-> TRUE]]
       ELSE [err |-> NoErr, coords |-> c,
             heap |-> [r \in DOMAIN hp |->
                         IF \E i \in 1..Len(refs) : refs[i] = r
                         THEN [hp[r] EXCEPT !.pos1 = c[hp[r].nodes[1]],
                                            !.pos2 = c[hp[r].nodes[2]]]
                         ELSE hp[r]],
             pass |-> [x |-> ax.x, y |-> ax.y, yran |-> TRUE]]

\* ---------------------------------------------------------- _make_wires
\* Schematic._make_wires1 on the keys of one net as its dict iterates them.
make_wires1(keys) ==
    [n \in 1..(Len(keys) - 1) |->
        NetElement(<<"W", "_">>, keys[n], keys[n + 1], DefaultOpts, 0).elt.nodes]

RECURSIVE make_wires(_)
make_wires(nets) ==
    IF nets = <<>> THEN <<>>
    ELSE make_wires1(Head(nets)) \o make_wires(Tail(nets))

\* ------------------------------------------------------- iteration order
\* The orders a dict of n entries may iterate in.
Orders(n) == Permutations(1..n)

\* What iterating a dict, given in insertion order, may yield.
IterOrders(d) == {[i \in 1..Len(d) |-> d[p[i]]] : p \in Orders(Len(d))}

\* For nets iterated in the order vs: the key lists their dicts may yield.
RECURSIVE KeyOrders(_)
KeyOrders(vs) ==
    IF vs = <<>> THEN {<<>>}
    ELSE { <<[i \in 1..Len(k) |-> k[i].key]>> \o rest :
               k \in IterOrders(Head(vs).val), rest \in KeyOrders(Tail(vs)) }

\* What vnode_dir.values(), and vnode.keys() of each, may yield.
NetOrders(vn) == UNION {KeyOrders(o) : o \in IterOrders(vn)}

\* The netlist lines of the model: 'name n1 n2; opts'.  Names has a
\* resistor without an id (named from the class counter, so several coexist),
\* a port with an id (a second line of that name overrides the first) and a
\* name no component type matches.
Names == { <<"R">>, <<"P", "1">>, <<"X", "1">> }
NodePairs == { << <<"0">>, <<"1">> >>, << <<"0", ".", "1">>, <<"0", ".", "2">> >>,
               << <<"1">>, <<"0", ".", "1">> >> }
OptStrings == { <<>>, <<[key |-> "right", arg |-> <<>>]>> }

\* The lines of the layout's own specification: resistors without an id, over
\* pairs that close a cycle of three nodes and chain four, with every
\* direction option (or none) and every size option (or none).
LayoutPairs == { << <<"0">>, <<"1">> >>, << <<"1">>, <<"0", ".", "1">> >>,
                 << <<"0", ".", "1">>, <<"0">> >>,
                 << <<"0", ".", "1">>, <<"0", ".", "2">> >> }
LayoutOptStrings ==
    { d \o z : d \in { <<>> } \cup { <<[key |-> k, arg |-> <<>>]>> :
                                       k \in {"up", "down", "left", "right"} },
               z \in { <<>> } \cup { <<[key |-> "size", arg |-> DecStr(n)]>> :
                                       n \in 2..MaxSize } }
Scales == {1, 2}

\* ------------------------------------------------------------- actions
Init ==
    /\ heap = <<>>
    /\ elements = <<>>
    /\ nodes = <<>>
    /\ vnodes = <<>>
    /\ cpt_type_counter = 0
    /\ scale = 2
    /\ coords = <<>>
    /\ wires = <<>>
    /\ pass = NoPass
    /\ error = NoErr
    /\ last = "new"
    /\ ndraws = 0

\* What add leaves in the schematic: the element made of the line and
\* registered by _elt_add, or the ValueError of a name no type matches.
add(name, n1, n2, optstr) ==
    LET ne == NetElement(name, n1, n2, opts_parse(optstr, DefaultOpts),
                         cpt_type_counter)
        ref == Len(heap) + 1
    IN IF ~ne.ok
       THEN [err |-> [type |-> "ValueError", what |-> name], heap |-> heap,
             counter |-> cpt_type_counter,
             tab |-> [elements |-> elements, nodes |-> nodes, vnodes |-> vnodes]]
       ELSE [err |-> NoErr, heap |-> Append(heap, ne.elt), counter |-> ne.counter,
             tab |-> elt_add(elements, [nodes |-> nodes, vnodes |-> vnodes],
                             ref, ne.elt)]

\* Schematic.add of the line 'name n1 n2; opts'.
Add(name, n1, n2, optstr) ==
    /\ Len(heap) < MaxElts
    /\ \E r \in {add(name, n1, n2, optstr)} :
           /\ heap' = r.heap
           /\ elements' = r.tab.elements
           /\ nodes' = r.tab.nodes
           /\ vnodes' = r.tab.vnodes
           /\ cpt_type_counter' = r.counter
           /\ error' = r.err
    /\ last' = "add"
    /\ UNCHANGED <<scale, coords, wires, pass, ndraws>>

\* The nodes schemdraw_draw marks with a dot (ports and primary nodes) that
\* the coordinates map has no entry for: looking one up is a KeyError.
undrawable(nds, crds) ==
    {n \in DOMAIN nds : (nds[n].port \/ nds[n].primary) /\ n \notin DOMAIN crds}

\* Schematic.draw(scale=sc): schemdraw_draw, that is the layout pass and the
\* lookup of the coordinates of the nodes to mark (the drawing itself is the
\* plotting library's).  eo is the element table as it iterates.
SchemdrawDraw(eo) ==
    /\ ndraws < MaxDraws
    /\ ndraws' = ndraws + 1
    /\ last' = "schemdraw"
    /\ \E refs \in {[i \in 1..Len(eo) |-> eo[i].val]} :
       \E ax \in {axes(heap, refs)} :
       \E sc \in Scales :
       \E r \in {positions_calculate(heap, refs, ax, coords, sc)} :
           /\ scale' = sc
           /\ IF r.err # NoErr \/ undrawable(nodes, r.coords) = {}
              THEN error' = r.err
              ELSE \E n \in undrawable(nodes, r.coords) :
                       error' = [type |-> "KeyError", what |-> n]
           /\ coords' = r.coords
           /\ heap' = r.heap
           /\ pass' = r.pass
    /\ UNCHANGED <<elements, nodes, vnodes, cpt_type_counter, wires>>

\* Schematic.draw(scale=sc, tex=True): tikz_draw, that is the layout pass and,
\* when it succeeds, the implicit wires.
TikzDraw(eo) ==
    /\ ndraws < MaxDraws
    /\ ndraws' = ndraws + 1
    /\ last' = "tikz"
    /\ \E refs \in {[i \in 1..Len(eo) |-> eo[i].val]} :
       \E ax \in {axes(heap, refs)} :
       \E sc \in Scales :
       \E r \in {positions_calculate(heap, refs, ax, coords, sc)} :
           /\ scale' = sc
           /\ error' = r.err
           /\ coords' = r.coords
           /\ heap' = r.heap
           /\ pass' = r.pass
           /\ IF r.err = NoErr
              THEN \E w \in {make_wires(nets) : nets \in NetOrders(vnodes)} :
                       wires' = w
              ELSE wires' = wires
    /\ UNCHANGED <<elements, nodes, vnodes, cpt_type_counter>>

Next ==
    \/ \E name \in Names, np \in NodePairs, optstr \in OptStrings :
           Add(name, np[1], np[2], optstr)
    \/ \E eo \in IterOrders(elements) : TikzDraw(eo)
    \/ \E eo \in IterOrders(elements) : SchemdrawDraw(eo)

\* One layout pass over every netlist of up to MaxElts lines.
NextLayout ==
    \/ /\ ndraws = 0
       /\ \E np \in LayoutPairs, optstr \in LayoutOptStrings :
              Add(<<"R">>, np[1], np[2], optstr)
    \/ /\ ndraws = 0
       /\ \E eo \in IterOrders(elements) : SchemdrawDraw(eo)

Spec == Init /\ [][Next]_vars

SpecLayout == Init /\ [][NextLayout]_vars

\* ------------------------------------------------------------ properties
\* The elements the table holds, the terminals they join, and the directions
\* aligned with each axis.
Current == {elements[i].val : i \in 1..Len(elements)}
Terminals == UNION {{heap[r].nodes[1], heap[r].nodes[2]} : r \in Current}
Axes == [x |-> <<"right", "left">>, y |-> <<"up", "down">>]
Aligned(k) == {r \in Current : heap[r].opts.dir \in {Axes[k][1], Axes[k][2]}}
Orthogonal(k) == Current \ Aligned(k)

\* The last operation was a drawing; it succeeded; its pass got through the
\* unification of axis k.
Drawn == last \in {"schemdraw", "tikz"}
Solved == Drawn /\ error = NoErr
Ran(k) == Drawn /\ (k = "x" \/ pass.yran)
Unified(k) == Ran(k) /\ pass[k].err.type # "ValueError"

\* The transitive closure of a relation given as a set of pairs.
RECURSIVE Closure(_)
Closure(E) ==
    LET E2 == E \cup UNION {{<<p[1], q[2]>> : q \in {r \in E : r[1] = p[2]}} : p \in E}
    IN IF E2 = E THEN E ELSE Closure(E2)

\* The collective nodes of axis k as sets of terminals.
Blocks(k) ==
    {{pass[k].cnodes[c][i] : i \in 1..Len(pass[k].cnodes[c])} :
        c \in DOMAIN pass[k].cnodes}

\* C1: after a successful layout, every element with a direction has its
\* second terminal at least size * scale away from its first along the axis
\* of the direction, on the side the direction names (coordinates are doubled).
C1_ElementSpan ==
    Solved =>
        \A r \in Current :
            LET e == heap[r]
                d == 2 * Float(e.opts.size) * scale
                p1 == coords[e.nodes[1]]
                p2 == coords[e.nodes[2]]
            IN /\ e.pos1 = p1 /\ e.pos2 = p2
               /\ e.opts.dir = "right" => p2[1] - p1[1] >= d
               /\ e.opts.dir = "left" => p1[1] - p2[1] >= d
               /\ e.opts.dir = "up" => p2[2] - p1[2] >= d
               /\ e.opts.dir = "down" => p1[2] - p2[2] >= d

\* A solved layout with a left element of size 2 stretched beyond its size by
\* the elements beside it.
C1_Witness ==
    /\ Solved
    /\ \E r \in Current :
           /\ heap[r].opts.dir = "left" /\ heap[r].opts.size = <<"2">>
           /\ heap[r].pos1[1] - heap[r].pos2[1] > 4 * scale

\* The aligned constraints of axis k as edges between collective nodes, from
\* the lower coordinate to the higher, and whether they close a cycle.
AlignedEdges(k) ==
    { IF heap[r].opts.dir = Axes[k][1]
      THEN <<pass[k].cnode_map[heap[r].nodes[1]], pass[k].cnode_map[heap[r].nodes[2]]>>
      ELSE <<pass[k].cnode_map[heap[r].nodes[2]], pass[k].cnode_map[heap[r].nodes[1]]>> :
        r \in Aligned(k) }
Cyclic(k) == \E e \in Closure(AlignedEdges(k)) : e[1] = e[2]

\* C2: when the aligned constraints of an axis close a cycle, the longest-path
\* evaluation ends in a layout error of its own, and no vertex is evaluated
\* again while its evaluation is in progress.
C2_CycleReported ==
    \A k \in {"x", "y"} :
        (Unified(k) /\ Cyclic(k)) =>
            /\ pass[k].err # NoErr
            /\ pass[k].err.type # "RuntimeError"
            /\ pass[k].reentries = 0

\* The unification of the claim: the orthogonal elements taken in declaration
\* order, a new collective node when neither terminal has one, the terminal
\* without one joining the other's, a conflict naming the element when both
\* have different ones.
RECURSIVE DeclUnify(_, _, _)
DeclUnify(part, elts, dirs) ==
    IF elts = <<>> THEN [conflict |-> <<>>, part |-> part]
    ELSE LET e == Head(elts)
             b1 == {b \in part : e.nodes[1] \in b}
             b2 == {b \in part : e.nodes[2] \in b}
         IN IF e.opts.dir \in {dirs[1], dirs[2]}
            THEN DeclUnify(part, Tail(elts), dirs)
            ELSE IF b1 = {} /\ b2 = {}
            THEN DeclUnify(part \cup {{e.nodes[1], e.nodes[2]}}, Tail(elts), dirs)
            ELSE IF b1 = {}
            THEN DeclUnify((part \ b2) \cup {b \cup {e.nodes[1]} : b \in b2},
                           Tail(elts), dirs)
            ELSE IF b2 = {}
            THEN DeclUnify((part \ b1) \cup {b \cup {e.nodes[2]} : b \in b1},
                           Tail(elts), dirs)
            ELSE IF b1 # b2 THEN [conflict |-> e.name, part |-> part]
            ELSE DeclUnify(part, Tail(elts), dirs)

Declared == [i \in 1..Len(elements) |-> heap[elements[i].val]]

\* C3: the unification of an axis comes out as the orthogonal elements taken
\* in declaration order make it: the conflict that order meets, naming its
\* element, or the collective nodes that order builds.
C3_DeclarationOrder ==
    \A k \in {"x", "y"} :
        Ran(k) =>
            LET ref == DeclUnify({}, Declared, Axes[k])
            IN IF ref.conflict # <<>>
               THEN pass[k].err = [type |-> "ValueError", what |-> ref.conflict]
               ELSE pass[k].err.type # "ValueError" /\ ref.part \subseteq Blocks(k)

\* C4: a layout pass that ends in an error leaves the coordinates map and
\* every element's endpoint positions as they were.
C4_FailedPassKeeps ==
    [][(ndraws' = ndraws + 1 /\ (pass'.x.err # NoErr \/ pass'.y.err # NoErr)) =>
           /\ coords' = coords
           /\ Len(heap') = Len(heap)
           /\ \A r \in DOMAIN heap :
                  heap'[r].pos1 = heap[r].pos1 /\ heap'[r].pos2 = heap[r].pos2]_vars

\* A pass that failed in its second axis after an earlier pass had placed the
\* elements.
C4_Witness ==
    /\ Drawn /\ pass.yran /\ pass.y.err # NoErr
    /\ coords # <<>>
    /\ \E r \in Current : heap[r].pos1 # NoPos
    /\ \E r \in Current : heap[r].pos1 = NoPos

\* The aligned constraints of axis k with their sizes, the paths they make
\* (sequences of constraints, each ending where the next starts), and the
\* collective nodes on the heaviest paths; with no constraint every node is a
\* path of weight 0.
SizedEdges(k) ==
    { IF heap[r].opts.dir = Axes[k][1]
      THEN <<pass[k].cnode_map[heap[r].nodes[1]], pass[k].cnode_map[heap[r].nodes[2]],
             Float(heap[r].opts.size)>>
      ELSE <<pass[k].cnode_map[heap[r].nodes[2]], pass[k].cnode_map[heap[r].nodes[1]],
             Float(heap[r].opts.size)>> :
        r \in Aligned(k) }
RECURSIVE Extend(_, _)
Extend(E, ps) ==
    LET more == ps \cup UNION {{Append(p, e) : e \in {d \in E : d[1] = p[Len(p)][2]}} :
                                 p \in {q \in ps : Len(q) < Cardinality(E)}}
    IN IF more = ps THEN ps ELSE Extend(E, more)
Paths(k) == Extend(SizedEdges(k), {<<e>> : e \in SizedEdges(k)})
RECURSIVE Weight(_)
Weight(p) == IF p = <<>> THEN 0 ELSE Head(p)[3] + Weight(Tail(p))
Heaviest(k) ==
    LET paths == Paths(k)
        ws == {Weight(p) : p \in paths}
        top == CHOOSE w \in ws : \A v \in ws : v <= w
    IN {p \in paths : Weight(p) = top}
Critical(k) ==
    IF SizedEdges(k) = {} THEN 1..pass[k].cnode
    ELSE UNION {UNION {{p[i][1], p[i][2]} : i \in 1..Len(p)} : p \in Heaviest(k)}

\* C5: after a successful layout, for every collective node the slack
\* (L - F) - R is not negative, is zero exactly when the node is on a
\* heaviest path, and the coordinate is the mean of L - F and R (kept doubled):
\* both of them on a heaviest path, strictly between them elsewhere.
C5_Slack ==
    Solved =>
        \A k \in {"x", "y"} : \E crit \in {Critical(k)} :
            \A c \in 1..pass[k].cnode :
                LET pos == pass[k].length - pass[k].memo[c]
                    posr == pass[k].memor[c]
                IN /\ pos - posr >= 0
                   /\ pos - posr = 0 <=> c \in crit
                   /\ \A n \in Terminals :
                          pass[k].cnode_map[n] = c =>
                              /\ pass[k].posa[n] = pos + posr
                              /\ pos - posr = 0 => pass[k].posa[n] = 2 * pos
                              /\ pos - posr > 0 =>
                                     /\ 2 * posr < pass[k].posa[n]
                                     /\ pass[k].posa[n] < 2 * pos

\* A solved layout with a collective node off every heaviest path of x, placed
\* strictly inside its window, and one on a heaviest path.
C5_Witness ==
    /\ Solved
    /\ \E c \in (1..pass.x.cnode) \ Critical("x") :
           pass.x.length - pass.x.memo[c] > pass.x.memor[c]
    /\ \E c \in Critical("x") : pass.x.memor[c] > 0

\* Two terminals are aliases of one net.
SameNet(a, b) == nodes[a].rootname = nodes[b].rootname

\* C6 as stated: after a successful layout, aliases of the same net have the
\* same coordinates.
C6_AliasesCoincide ==
    Solved =>
        \A a \in DOMAIN coords, b \in DOMAIN coords :
            SameNet(a, b) => coords[a] = coords[b]

\* C6: after a successful layout, aliases of the same net have the same
\* coordinate on each axis on which they are in one collective node.
C6_AliasesCoincidePerAxis ==
    Solved =>
        \A a \in DOMAIN coords, b \in DOMAIN coords :
            SameNet(a, b) =>
                /\ pass.x.cnode_map[a] = pass.x.cnode_map[b] => coords[a][1] = coords[b][1]
                /\ pass.y.cnode_map[a] = pass.y.cnode_map[b] => coords[a][2] = coords[b][2]

\* A solved layout with two aliases in one collective node of x, at one x,
\* and at different y.
C6_Witness ==
    /\ Solved
    /\ \E a \in DOMAIN coords, b \in DOMAIN coords :
           /\ a # b /\ SameNet(a, b)
           /\ pass.x.cnode_map[a] = pass.x.cnode_map[b]
           /\ coords[a][1] = coords[b][1]
           /\ coords[a][2] # coords[b][2]

\* C7: the wires inferred for a net of k aliases are the k - 1 that join each
\* alias to the next in the order the aliases were first met, and the wires of
\* all nets are as many as the terminals less the nets.
C7_WiresInOrder ==
    (last = "tikz" /\ error = NoErr) =>
        /\ {{wires[i][1], wires[i][2]} : i \in 1..Len(wires)} =
               UNION { {{vnodes[v].val[j].key, vnodes[v].val[j + 1].key} :
                           j \in 1..(Len(vnodes[v].val) - 1)} :
                       v \in 1..Len(vnodes) }
        /\ Len(wires) = Cardinality(DOMAIN nodes) - Len(vnodes)

\* C8: a line whose name is in the element table replaces the entry, and the
\* node table and the net grouping agree with the element table: a node lists
\* the elements of the table that join it, is a port when one of them is a
\* port, and a net's alias is held by an element of the table.
C8_BookkeepingAgrees ==
    /\ \A i \in 1..Len(elements) :
           /\ heap[elements[i].val].name = elements[i].key
           /\ \A r \in 1..Len(heap) :
                  heap[r].name = elements[i].key => r <= elements[i].val
    /\ \A n \in DOMAIN nodes :
           /\ {nodes[n].list[i] : i \in 1..Len(nodes[n].list)} =
                  {r \in Current : n \in {heap[r].nodes[1], heap[r].nodes[2]}}
           /\ nodes[n].port <=>
                  \E r \in Current :
                      /\ n \in {heap[r].nodes[1], heap[r].nodes[2]}
                      /\ heap[r].cpt_type \in {<<"P">>, <<"p", "o", "r", "t">>}
    /\ \A v \in 1..Len(vnodes) : \A j \in 1..Len(vnodes[v].val) :
           /\ vnodes[v].val[j].val \in Current
           /\ vnodes[v].val[j].key \in Terminals

\* Two terminals joined by a chain of elements orthogonal to axis k.
Chained(k) ==
    Closure(UNION {{<<heap[r].nodes[1], heap[r].nodes[2]>>,
                    <<heap[r].nodes[2], heap[r].nodes[1]>>} : r \in Orthogonal(k)})
        \cup {<<n, n>> : n \in DOMAIN nodes}

\* C9: when the unification of an axis meets no conflict, the collective nodes
\* partition the known terminals, and two terminals are in one collective
\* node exactly when a chain of elements orthogonal to the axis joins them.
C9_Partition ==
    \A k \in {"x", "y"} :
        Unified(k) => \E chained \in {Chained(k)} : \E blocks \in {Blocks(k)} :
            /\ DOMAIN pass[k].cnode_map = DOMAIN nodes
            /\ DOMAIN pass[k].cnodes = 1..pass[k].cnode
            /\ UNION blocks = DOMAIN nodes
            /\ {} \notin blocks
            /\ \A b1 \in blocks, b2 \in blocks : b1 = b2 \/ b1 \cap b2 = {}
            /\ \A n \in DOMAIN nodes :
                   \E i \in 1..Len(pass[k].cnodes[pass[k].cnode_map[n]]) :
                       pass[k].cnodes[pass[k].cnode_map[n]][i] = n
            /\ \A a \in DOMAIN nodes, b \in DOMAIN nodes :
                   pass[k].cnode_map[a] = pass[k].cnode_map[b] <=> <<a, b>> \in chained

\* A unification of y that joined three terminals through two elements and
\* left a fourth on its own.
C9_Witness ==
    /\ Unified("y")
    /\ pass.y.cnode = 2
    /\ \E b \in Blocks("y") : Cardinality(b) = 3
    /\ Cardinality(DOMAIN nodes) = 4

\* C10 as stated: after a successful layout the forward and the reverse
\* critical lengths of an axis are equal and every coordinate of the axis is
\* between 0 and L * scale, each of the two being some terminal's coordinate.
C10_ExtentAttained ==
    Solved =>
        \A i \in 1..2 :
            LET ax == IF i = 1 THEN pass.x ELSE pass.y
                top == 2 * ax.length * scale
            IN /\ ax.length1 = ax.length
               /\ \A n \in DOMAIN coords : 0 <= coords[n][i] /\ coords[n][i] <= top
               /\ \E n \in DOMAIN coords : coords[n][i] = 0
               /\ \E n \in DOMAIN coords : coords[n][i] = top

\* C10: the same, the two ends being some terminal's coordinate when the
\* element table is not empty.
C10_ExtentAttainedNonEmpty ==
    Solved =>
        \A i \in 1..2 :
            LET ax == IF i = 1 THEN pass.x ELSE pass.y
                top == 2 * ax.length * scale
            IN /\ ax.length1 = ax.length
               /\ \A n \in DOMAIN coords : 0 <= coords[n][i] /\ coords[n][i] <= top
               /\ elements # <<>> =>
                      /\ \E n \in DOMAIN coords : coords[n][i] = 0
                      /\ \E n \in DOMAIN coords : coords[n][i] = top

\* A solved layout whose x axis has a critical length of 3 made of sizes 1
\* and 2, and a terminal strictly inside the extent.
C10_Witness ==
    /\ Solved
    /\ pass.x.length1 = 3 /\ pass.x.length = 3
    /\ \E n \in DOMAIN coords : 0 < coords[n][1] /\ coords[n][1] < 6 * scale
    /\ \E n \in DOMAIN coords : coords[n][1] = 6 * scale
====
